---------------------------- MODULE Spec2Model ----------------------------
(***************************************************************************)
(* Ticket lifecycle, proof review, closure, cooldown and temporary-role    *)
(* timers of the access-request bot (src/bot.py).                          *)
(*                                                                         *)
(* The bot runs on a single-threaded cooperative event loop.  Every        *)
(* handler is a coroutine: the code between two awaits runs atomically,    *)
(* and other handlers may run at each await.  A handler suspended at an    *)
(* await is a record in `tasks`; one action resumes it up to its next      *)
(* await.  asyncio.sleep timers are records in `timers`.  The chat         *)
(* platform's own state (threads, role membership, category permission     *)
(* overwrites, the messages that carry buttons) survives a process         *)
(* restart; `cooldowns`, `tasks`, `timers`, the two global flags and the   *)
(* non-persistent review views do not.                                     *)
(*                                                                         *)
(* Time is in seconds.  Network I/O is short against the clock: the clock  *)
(* advances only when no handler is suspended, and never past the deadline *)
(* of a pending timer, so a timer fires at its deadline.                   *)
(***************************************************************************)
EXTENDS Integers, Sequences, FiniteSets, TLC

(***************************************************************************)
(* Program constants.                                                      *)
(***************************************************************************)
COOLDOWN_HOURS == 168
TEMP_ROLE_DURATION_HOURS == 3
TEMP_ROLE_DURATION_SECONDS == TEMP_ROLE_DURATION_HOURS * 3600
COOLDOWN_SECONDS == COOLDOWN_HOURS * 3600
INACTIVITY_SECONDS == 600
VIEW_TIMEOUT_SECONDS == 3600
IST_OFFSET_SECONDS == 5 * 3600 + 30 * 60
TICKET_START_HOUR_IST == 14
TICKET_END_HOUR_IST == 24

(***************************************************************************)
(* Bounds of the model.                                                    *)
(***************************************************************************)
MaxRegrantManual == 2
MaxMessages == 3
MaxKeys == 3
MaxResubmit == 2
MaxThreads == 2
MaxTasks == 2
MaxPrompts == 1
MaxTicks == 3
MaxRestarts == 1
MaxManual == 1
MaxClosures == 2

(***************************************************************************)
(* The guild: an ordinary user and an operator who holds manage_guild and  *)
(* manage_channels and owns the application; both are members and either   *)
(* may open tickets, post and press buttons.  The bot is the author of its *)
(* own messages and the closer of inactivity closures.                     *)
(***************************************************************************)
Users == {"u1"}
Operators == {"op"}
Members == Users \cup Operators
\* Holders of manage_guild: the operator and a second moderator, who acts on
\* review prompts only.
Moderators == Operators \cup {"op2"}
Owner == "op"
Bot == "bot"
NoOne == "none"
Channels == {"panel", "lobby"}

(***************************************************************************)
(* Clock values the process may start at: 08:30 UTC = 14:00 IST, inside    *)
(* the operational window, and 21:30 UTC = 03:00 IST, outside it.          *)
(***************************************************************************)
InitClocks == {8 * 3600 + 30 * 60, 21 * 3600 + 30 * 60}
IdleStep == 4 * 3600

VARIABLES
    now,                    \* datetime.now(utc), seconds
    TICKET_CREATION_STATUS, \* global flag
    BYPASS_HOURS_ACTIVE,    \* global flag
    cooldowns,              \* dict member -> expiry
    roles,                  \* platform: members holding the temporary role
    denied,                 \* platform: members denied view of the activation category
    threads,                \* platform: every ticket thread ever created
    prompts,                \* review prompts (VerificationView messages)
    tasks,                  \* handlers suspended at an await
    timers,                 \* pending asyncio.sleep deadlines
    reply,                  \* the response of the last step to its actor
    ticks,                  \* clock advances so far
    restarts,               \* process restarts so far
    manual,                 \* operator deliveries by command so far
    cleared,                \* timers of grants made before an operator's clear of their member
    history,                \* create_transcript: what channel.history yields, newest first
    messages,               \* create_transcript: the list being rendered
    transcript_chunks,      \* create_transcript: the chunks closed so far
    current,                \* create_transcript: the chunk being filled
    step,                   \* create_transcript: 0 before the fetch, then the loop index
    apps,                   \* on_message: the catalog load_apps() returned, in insertion order
    content,                \* on_message: message.content
    has_attachment,         \* on_message: bool(message.attachments)
    scan,                   \* on_message: the position of the generator over apps
    matched,                \* on_message: matched_app_key so far
    outcome                 \* on_message: the branch taken

tvars == <<history, messages, transcript_chunks, current, step>>

botvars == <<now, TICKET_CREATION_STATUS, BYPASS_HOURS_ACTIVE, cooldowns, roles,
             denied, threads, prompts, tasks, timers, reply, ticks, restarts, manual,
             cleared>>

mvars == <<apps, content, has_attachment, scan, matched, outcome>>

vars == <<botvars, tvars, mvars>>

(***************************************************************************)
(* Helpers.                                                                *)
(***************************************************************************)
Min(S) == CHOOSE x \in S : \A y \in S : x <= y

ThreadIds == 1..Len(threads)
PromptIds == 1..Len(prompts)

Reply(kind, who, th, rem) == [kind |-> kind, who |-> who, th |-> th, rem |-> rem]
NoReply == Reply("None", NoOne, 0, 0)

\* A suspended handler.  id tells apart two runs of the same handler for the
\* same caller (a button pressed twice); a new task takes the least free id.
FreeId(kind, who) ==
    Min({i \in 1..(Cardinality(tasks) + 1) :
            \A k \in tasks : k.kind = kind /\ k.who = who => k.id # i})
Task(kind, pc, who, th, arg, grant) ==
    [id |-> FreeId(kind, who), kind |-> kind, pc |-> pc, who |-> who, th |-> th, arg |-> arg,
     grant |-> grant]

Timer(kind, who, th, at) == [kind |-> kind, who |-> who, th |-> th, at |-> at]

DictSet(d, k, v) == [x \in DOMAIN d \cup {k} |-> IF x = k THEN v ELSE d[x]]
DictDel(d, k) == [x \in DOMAIN d \ {k} |-> d[x]]
EmptyDict == [x \in {} |-> 0]

(***************************************************************************)
(* is_ticket_time_allowed: the hour of now + IST offset lies in            *)
(* [TICKET_START_HOUR_IST, TICKET_END_HOUR_IST).                           *)
(***************************************************************************)
HourIST(t) == ((t + IST_OFFSET_SECONDS) \div 3600) % 24

\* The window with its first hour left out.
is_ticket_time_allowed_AfterStart(t) ==
    /\ TICKET_START_HOUR_IST < HourIST(t)
    /\ HourIST(t) < TICKET_END_HOUR_IST

is_ticket_time_allowed(t) ==
    /\ TICKET_START_HOUR_IST <= HourIST(t)
    /\ HourIST(t) < TICKET_END_HOUR_IST

(***************************************************************************)
(* create_new_ticket, up to its first await (the thread creation).         *)
(* existing_thread: a non-archived thread of the origin channel named      *)
(* ticket-<user id>.                                                       *)
(***************************************************************************)
ExistingThreads(u, c) ==
    {i \in ThreadIds : /\ threads[i].chan = c
                       /\ ~threads[i].archived
                       /\ threads[i].owner = u}

\* StatusRefuses without the creation flag: the hours check alone.
StatusRefuses_HoursOnly ==
    ~(is_ticket_time_allowed(now) \/ BYPASS_HOURS_ACTIVE)

StatusRefuses ==
    \/ ~TICKET_CREATION_STATUS
    \/ ~(is_ticket_time_allowed(now) \/ BYPASS_HOURS_ACTIVE)

CategoryRefuses(u) == u \in denied

CooldownRefuses(u) == u \in DOMAIN cooldowns /\ cooldowns[u] > now

\* The remaining time shown to a refused user; 0 stands for the text "N/A".
TimeLeft(u) ==
    IF u \in DOMAIN cooldowns /\ cooldowns[u] > now THEN cooldowns[u] - now ELSE 0

TicketCheck(u, c) ==
    IF StatusRefuses THEN Reply("SystemClosed", u, 0, 0)
    ELSE IF CategoryRefuses(u) THEN Reply("CooldownActive", u, 0, TimeLeft(u))
    ELSE IF CooldownRefuses(u) THEN Reply("CooldownActive", u, 0, cooldowns[u] - now)
    ELSE IF ExistingThreads(u, c) # {}
         THEN Reply("DuplicateTicket", u, Min(ExistingThreads(u, c)), 0)
    ELSE Reply("Creating", u, 0, 0)

OpenTasks == {k \in tasks : k.kind = "open" /\ k.pc = "create_thread"}

CreateNewTicket(u, c) ==
    /\ TicketCheck(u, c).kind = "Creating" =>
            /\ Cardinality(tasks) < MaxTasks
            /\ Len(threads) + Cardinality(OpenTasks) < MaxThreads
    /\ reply' = TicketCheck(u, c)
    /\ tasks' = IF TicketCheck(u, c).kind = "Creating"
                THEN tasks \cup {Task("open", "create_thread", u, 0, c, FALSE)}
                ELSE tasks
    /\ UNCHANGED <<now, TICKET_CREATION_STATUS, BYPASS_HOURS_ACTIVE, cooldowns, roles,
                   denied, threads, prompts, timers, ticks, restarts, manual, cleared, tvars, mvars>>

NewThread(u, c) ==
    [owner |-> u, chan |-> c, archived |-> FALSE, first |-> NoOne,
     closeView |-> FALSE, stage2 |-> FALSE, links |-> 0, closures |-> 0,
     transcripts |-> 0, grants |-> 0, linkAt |-> 0, grantLog |-> {}]

\* create_thread returned: the thread exists and the inactivity timer is armed.
CreateThreadDone(k) ==
    /\ k \in tasks /\ k.kind = "open" /\ k.pc = "create_thread"
    /\ threads' = Append(threads, NewThread(k.who, k.arg))
    /\ timers' = timers \cup {Timer("inactivity", Bot, Len(threads) + 1, now + INACTIVITY_SECONDS)}
    /\ tasks' = (tasks \ {k}) \cup {[k EXCEPT !.pc = "welcome", !.th = Len(threads) + 1]}
    /\ reply' = NoReply
    /\ UNCHANGED <<now, TICKET_CREATION_STATUS, BYPASS_HOURS_ACTIVE, cooldowns, roles,
                   denied, prompts, ticks, restarts, manual, cleared, tvars, mvars>>

\* create_thread raised discord.Forbidden.
CreateThreadForbidden(k) ==
    /\ k \in tasks /\ k.kind = "open" /\ k.pc = "create_thread"
    /\ tasks' = tasks \ {k}
    /\ reply' = Reply("PermissionDenied", k.who, 0, 0)
    /\ UNCHANGED <<now, TICKET_CREATION_STATUS, BYPASS_HOURS_ACTIVE, cooldowns, roles,
                   denied, threads, prompts, timers, ticks, restarts, manual, cleared, tvars, mvars>>

\* The welcome message is the thread's first message unless a user posted first.
WelcomeSent(k) ==
    /\ k \in tasks /\ k.kind = "open" /\ k.pc = "welcome"
    /\ threads' = [threads EXCEPT ![k.th].first = IF @ = NoOne THEN Bot ELSE @]
    /\ tasks' = tasks \ {k}
    /\ reply' = Reply("Created", k.who, k.th, 0)
    /\ UNCHANGED <<now, TICKET_CREATION_STATUS, BYPASS_HOURS_ACTIVE, cooldowns, roles,
                   denied, prompts, timers, ticks, restarts, manual, cleared, tvars, mvars>>

(***************************************************************************)
(* Text.  A string is a sequence of one-character strings; upper() and     *)
(* lower() map the letters and keep every other character; `x in y` on     *)
(* strings is substring containment.                                       *)
(***************************************************************************)
LowerLetters == <<"a","b","c","d","e","f","g","h","i","j","k","l","m",
                  "n","o","p","q","r","s","t","u","v","w","x","y","z">>
UpperLetters == <<"A","B","C","D","E","F","G","H","I","J","K","L","M",
                  "N","O","P","Q","R","S","T","U","V","W","X","Y","Z">>

IsLower(ch) == \E i \in 1..Len(LowerLetters) : LowerLetters[i] = ch
IsUpper(ch) == \E i \in 1..Len(UpperLetters) : UpperLetters[i] = ch
UpperCh(ch) ==
    IF IsLower(ch)
    THEN UpperLetters[CHOOSE i \in 1..Len(LowerLetters) : LowerLetters[i] = ch]
    ELSE ch
LowerCh(ch) ==
    IF IsUpper(ch)
    THEN LowerLetters[CHOOSE i \in 1..Len(UpperLetters) : UpperLetters[i] = ch]
    ELSE ch
\* upper() as it would be if it kept every character.
Upper_Identity(s) == s
Upper(s) == [i \in 1..Len(s) |-> UpperCh(s[i])]
Lower(s) == [i \in 1..Len(s) |-> LowerCh(s[i])]
\* str.title(): the first letter of every run of letters upper, the rest lower.
Title(s) ==
    [i \in 1..Len(s) |->
        IF i = 1 \/ ~(IsLower(s[i - 1]) \/ IsUpper(s[i - 1]))
        THEN UpperCh(s[i]) ELSE LowerCh(s[i])]
Contains(needle, hay) ==
    \E i \in 0..(Len(hay) - Len(needle)) :
        \A j \in 1..Len(needle) : hay[i + j] = needle[j]

(***************************************************************************)
(* The reward catalog (apps.json, in insertion order) and the two-stage    *)
(* list.  The model keeps one single-stage and one two-stage key of the    *)
(* default catalog.                                                        *)
(***************************************************************************)
Chars ==
    [spotify |-> <<"s","p","o","t","i","f","y">>,
     vpn |-> <<"v","p","n">>,
     hotstar |-> <<"h","o","t","s","t","a","r">>,
     bilibili |-> <<"b","i","l","i","b","i","l","i">>]
load_apps == <<"spotify", "vpn">>
\* The two-stage list without the key vpn.
V2_APPS_LIST_NoVpn == {"bilibili", "hotstar"}
V2_APPS_LIST == {"bilibili", "hotstar", "vpn"}
NoApp == "none"

RASH_TECH == <<"R","A","S","H"," ","T","E","C","H">>
KEY_SUFFIX == <<" ","K","E","Y">>

\* The texts users post.
Texts ==
    { <<"s","p","o","t","i","f","y"," ","r","a","s","h"," ","t","e","c","h">>,
      <<"v","p","n"," ","R","A","S","H"," ","T","E","C","H">>,
      <<"V","p","n"," ","K","e","y">>,
      <<"v","p","n">>,
      <<"h","i">> }

\* A first-stage phrase inside a sentence, a single-stage key with no phrase,
\* and every text in upper, lower and title case.
Embedded == <<"v","p","n",":"," ","h","e","r","e"," ","i","s"," ","m","y"," ","r","a","s","h"," ","t","e","c","h"," ","p","r","o","o","f">>
BareKey == <<"s","p","o","t","i","f","y">>
Recasings(text) == {Upper(text), Lower(text), Title(text)}
AllTexts == UNION {{text} \cup Recasings(text) : text \in Texts \cup {Embedded, BareKey}}

\* next((key for key in apps if key in content_lower), None)
matched_app_key(text) ==
    LET hits == {i \in 1..Len(load_apps) : Contains(Chars[load_apps[i]], Lower(text))}
    IN  IF hits = {} THEN NoApp ELSE load_apps[Min(hits)]

v2_key_word(app) == Upper(Title(Chars[app])) \o KEY_SUFFIX

(***************************************************************************)
(* on_message in a ticket thread.  The classification of a submission.     *)
(***************************************************************************)
ClassifyKey(app, text, att) ==
    IF app # NoApp /\ att
    THEN IF app \in V2_APPS_LIST /\ Contains(v2_key_word(app), Upper(text))
         THEN "V2Forwarded"
         ELSE IF Contains(RASH_TECH, Upper(text)) THEN "Queued"
         ELSE "KeywordMissing"
    ELSE IF app # NoApp /\ ~att THEN "Error"   \* line 1422 reads an unbound local
    ELSE "Ignored"

Classify(text, att) == ClassifyKey(matched_app_key(text), text, att)

\* The generator of matched_app_key, one key of the catalog at a time: next()
\* returns at the first key found in content_lower.  NextScan as it would be
\* if the generator ran to the end of the catalog.
NextScan_On(hit, i, n) == i + 1

NextScan(hit, i, n) == IF hit THEN n + 1 ELSE i + 1

ScanKey ==
    /\ scan \in 1..Len(apps)
    /\ LET hit == Contains(Chars[apps[scan]], Lower(content))
       IN  /\ matched' = IF hit THEN apps[scan] ELSE matched
           /\ scan' = NextScan(hit, scan, Len(apps))
    /\ UNCHANGED <<botvars, tvars, apps, content, has_attachment, outcome>>

\* The branch on_message takes for the key matched.
CheckMatched ==
    /\ scan = Len(apps) + 1
    /\ outcome' = ClassifyKey(matched, content, has_attachment)
    /\ scan' = scan + 1
    /\ UNCHANGED <<botvars, tvars, apps, content, has_attachment, matched>>

Answered == scan = Len(apps) + 2

\* The two pure functions above, tabulated over the texts the model posts.
ClassOf == [text \in AllTexts, att \in BOOLEAN |-> Classify(text, att)]
MatchOf == [text \in AllTexts |-> matched_app_key(text)]

NewPrompt(t, a, app) ==
    [th |-> t, user |-> a, app |-> app, enabled |-> TRUE, live |-> TRUE,
     approvals |-> 0, denials |-> 0, links |-> 0]

\* required_keywords as it would be without the second-stage phrase.
RequiredKeywords_One(app) == 1

\* The number of phrases a KeywordMissing reply names.
RequiredKeywords(app) == IF app \in V2_APPS_LIST THEN 2 ELSE 1

OnMessageUpTo(n, t, a, text, att) ==
    /\ t \in ThreadIds /\ ~threads[t].archived
    /\ LET kind == ClassOf[text, att]
           app == MatchOf[text]
       IN  /\ kind = "Queued" => Len(prompts) < n
           /\ prompts' = IF kind = "Queued"
                         THEN Append(prompts, NewPrompt(t, a, app))
                         ELSE prompts
           /\ reply' = IF kind = "Ignored" THEN NoReply
                       ELSE Reply(kind, a, t,
                                  IF kind = "KeywordMissing" THEN RequiredKeywords(app) ELSE 0)
           /\ timers' = IF kind = "Queued"
                        THEN timers \cup {Timer("view", Bot, Len(prompts) + 1,
                                                now + VIEW_TIMEOUT_SECONDS)}
                        ELSE timers
    /\ threads' = [threads EXCEPT ![t].first = IF @ = NoOne THEN a ELSE @]
    /\ UNCHANGED <<now, TICKET_CREATION_STATUS, BYPASS_HOURS_ACTIVE, cooldowns, roles,
                   denied, tasks, ticks, restarts, manual, cleared, tvars, mvars>>

OnMessage(t, a, text, att) == OnMessageUpTo(MaxPrompts, t, a, text, att)

(***************************************************************************)
(* deliver_and_close: the reward link and the closure prompt are sent to   *)
(* the ticket.  A send to an archived, locked thread is refused by the     *)
(* platform and the calling handler ends there.                            *)
(***************************************************************************)
AppLink(app) == \E i \in 1..Len(load_apps) : load_apps[i] = app

Delivered(ths, t, app) ==
    IF AppLink(app)
    THEN [ths EXCEPT ![t].links = @ + 1, ![t].closeView = TRUE, ![t].linkAt = now]
    ELSE ths

(***************************************************************************)
(* VerificationView: the approve and deny buttons of a review prompt.      *)
(* A press reaches the handler while the platform still shows the buttons  *)
(* enabled and the view is registered and not timed out.                   *)
(***************************************************************************)
ViewTimers(p) == {Timer("view", Bot, p, now + VIEW_TIMEOUT_SECONDS)}

Pressable(p) ==
    /\ p \in PromptIds
    /\ prompts[p].enabled
    /\ prompts[p].live

\* The permission check as it would be if every member passed it.
HasManageGuild_Everyone(who) == who \in Members \cup Moderators

HasManageGuild(who) == who \in Moderators

PressDecision(kind, p, who) ==
    /\ Pressable(p)
    /\ Cardinality(tasks) < MaxTasks
    /\ timers' = ViewTimers(p) \cup {tm \in timers : ~(tm.kind = "view" /\ tm.th = p)}
    /\ IF HasManageGuild(who)
       THEN /\ tasks' = tasks \cup {Task(kind, "edit", who, p, "-", FALSE)}
            /\ reply' = NoReply
       ELSE /\ tasks' = tasks
            /\ reply' = Reply("NotAuthorized", who, prompts[p].th, 0)
    /\ UNCHANGED <<now, TICKET_CREATION_STATUS, BYPASS_HOURS_ACTIVE, cooldowns, roles,
                   denied, threads, prompts, ticks, restarts, manual, cleared, tvars, mvars>>

\* View timeout: the view stops listening VIEW_TIMEOUT_SECONDS after its last
\* interaction.
ViewTimeout(tm) ==
    /\ tm \in timers /\ tm.kind = "view" /\ tm.at <= now
    /\ timers' = timers \ {tm}
    /\ prompts' = [prompts EXCEPT ![tm.th].live = FALSE]
    /\ reply' = NoReply
    /\ UNCHANGED <<now, TICKET_CREATION_STATUS, BYPASS_HOURS_ACTIVE, cooldowns, roles,
                   denied, threads, tasks, ticks, restarts, manual, cleared, tvars, mvars>>

PressApprove(p, who) == PressDecision("approve", p, who)
PressDeny(p, who) == PressDecision("deny", p, who)

\* approve_v1_proof after message.edit: the buttons show disabled, then the
\* second-stage instruction or the delivery is sent to the ticket.
ApproveDone(k) ==
    /\ k \in tasks /\ k.kind = "approve"
    /\ LET p == k.th
           t == prompts[p].th
           app == prompts[p].app
           sent == ~threads[t].archived
       IN  /\ prompts' = [prompts EXCEPT
                  ![p].enabled = FALSE,
                  ![p].approvals = @ + 1,
                  ![p].links = IF sent /\ app \notin V2_APPS_LIST /\ AppLink(app)
                               THEN @ + 1 ELSE @]
           /\ threads' = IF ~sent THEN threads
                         ELSE IF app \in V2_APPS_LIST
                              THEN [threads EXCEPT ![t].stage2 = TRUE]
                              ELSE Delivered(threads, t, app)
           /\ reply' = IF ~sent THEN Reply("Error", k.who, t, 0)
                       ELSE IF app \in V2_APPS_LIST THEN Reply("SecondStep", prompts[p].user, t, 0)
                       ELSE IF AppLink(app) THEN Reply("Delivered", prompts[p].user, t, 0)
                       ELSE Reply("RewardNotFound", prompts[p].user, t, 0)
    /\ tasks' = tasks \ {k}
    /\ UNCHANGED <<now, TICKET_CREATION_STATUS, BYPASS_HOURS_ACTIVE, cooldowns, roles,
                   denied, timers, ticks, restarts, manual, cleared, tvars, mvars>>

\* deny_v1_proof as it would be if a denial closed the ticket.
DenyDone_Closes(k) ==
    /\ k \in tasks /\ k.kind = "deny"
    /\ LET p == k.th
           t == prompts[p].th
       IN  /\ prompts' = [prompts EXCEPT
                  ![p].enabled = FALSE,
                  ![p].denials = IF ~threads[t].archived THEN @ + 1 ELSE @]
           /\ threads' = [threads EXCEPT ![t].archived = TRUE]
           /\ reply' = IF threads[t].archived THEN Reply("Error", k.who, t, 0)
                       ELSE Reply("Denied", prompts[p].user, t, 0)
    /\ tasks' = tasks \ {k}
    /\ UNCHANGED <<now, TICKET_CREATION_STATUS, BYPASS_HOURS_ACTIVE, cooldowns, roles,
                   denied, timers, ticks, restarts, manual, cleared, tvars, mvars>>

\* deny_v1_proof after message.edit: the denial is sent to the ticket.
DenyDone(k) ==
    /\ k \in tasks /\ k.kind = "deny"
    /\ LET p == k.th
           t == prompts[p].th
       IN  /\ prompts' = [prompts EXCEPT
                  ![p].enabled = FALSE,
                  ![p].denials = IF ~threads[t].archived THEN @ + 1 ELSE @]
           /\ reply' = IF threads[t].archived THEN Reply("Error", k.who, t, 0)
                       ELSE Reply("Denied", prompts[p].user, t, 0)
    /\ tasks' = tasks \ {k}
    /\ UNCHANGED <<now, TICKET_CREATION_STATUS, BYPASS_HOURS_ACTIVE, cooldowns, roles,
                   denied, threads, timers, ticks, restarts, manual, cleared, tvars, mvars>>

(***************************************************************************)
(* /send_app and /verify_v2_final: an operator delivers by command to the  *)
(* first active thread named ticket-<user id>.                             *)
(***************************************************************************)
ActiveTickets(u) == {i \in ThreadIds : ~threads[i].archived /\ threads[i].owner = u}

ManualDeliverUpTo(n, who, app, u, v2only) ==
    /\ manual < n
    /\ manual' = manual + 1
    /\ IF ~HasManageGuild(who)
       THEN /\ reply' = Reply("NotAuthorized", who, 0, 0)
            /\ threads' = threads
       ELSE IF (v2only /\ app \notin V2_APPS_LIST) \/ (~v2only /\ ~AppLink(app))
            \/ ActiveTickets(u) = {}
       THEN /\ reply' = Reply("Refused", who, 0, 0)
            /\ threads' = threads
       ELSE /\ threads' = Delivered(threads, Min(ActiveTickets(u)), app)
            /\ reply' = IF AppLink(app)
                        THEN Reply("Delivered", u, Min(ActiveTickets(u)), 0)
                        ELSE Reply("RewardNotFound", u, Min(ActiveTickets(u)), 0)
    /\ UNCHANGED <<now, TICKET_CREATION_STATUS, BYPASS_HOURS_ACTIVE, cooldowns, roles,
                   denied, prompts, tasks, timers, ticks, restarts, cleared, tvars, mvars>>

ManualDeliver(who, app, u, v2only) == ManualDeliverUpTo(MaxManual, who, app, u, v2only)

send_app(who, app, u) == ManualDeliver(who, app, u, FALSE)
verify_v2_final(who, app, u) == ManualDeliver(who, app, u, TRUE)

(***************************************************************************)
(* Closure.  CloseTicketView.close_ticket, /force_close and the inactivity *)
(* timer all run perform_ticket_closure; only the Close button passes      *)
(* apply_cooldown=True.                                                    *)
(***************************************************************************)
\* closures counts the closures a member has started on the thread.
StartClosure(who, t, grant) ==
    /\ t \in ThreadIds
    /\ Cardinality(tasks) < MaxTasks
    /\ threads[t].closures < MaxClosures
    /\ tasks' = tasks \cup {Task("close", "begin", who, t, "-", grant)}
    /\ threads' = [threads EXCEPT ![t].closures = @ + 1]

close_ticket(t, who) ==
    /\ t \in ThreadIds /\ threads[t].closeView /\ ~threads[t].archived
    /\ StartClosure(who, t, TRUE)
    /\ reply' = Reply("Closing", who, t, 0)
    /\ UNCHANGED <<now, TICKET_CREATION_STATUS, BYPASS_HOURS_ACTIVE, cooldowns, roles,
                   denied, prompts, timers, ticks, restarts, manual, cleared, tvars, mvars>>

HasManageChannels(who) == who \in Operators

\* /force_close as it would be with apply_cooldown=True.
force_close_Grant(t, who) ==
    /\ t \in ThreadIds
    /\ IF HasManageChannels(who)
       THEN /\ StartClosure(who, t, TRUE)
            /\ reply' = Reply("Closing", who, t, 0)
       ELSE /\ tasks' = tasks
            /\ threads' = threads
            /\ reply' = Reply("NotAuthorized", who, t, 0)
    /\ UNCHANGED <<now, TICKET_CREATION_STATUS, BYPASS_HOURS_ACTIVE, cooldowns, roles,
                   denied, prompts, timers, ticks, restarts, manual, cleared, tvars, mvars>>

force_close(t, who) ==
    /\ t \in ThreadIds
    /\ IF HasManageChannels(who)
       THEN /\ StartClosure(who, t, FALSE)
            /\ reply' = Reply("Closing", who, t, 0)
       ELSE /\ tasks' = tasks
            /\ threads' = threads
            /\ reply' = Reply("NotAuthorized", who, t, 0)
    /\ UNCHANGED <<now, TICKET_CREATION_STATUS, BYPASS_HOURS_ACTIVE, cooldowns, roles,
                   denied, prompts, timers, ticks, restarts, manual, cleared, tvars, mvars>>

\* archive_thread_after_delay as it would be with apply_cooldown=True.
archive_thread_after_delay_Grant(tm) ==
    /\ tm \in timers /\ tm.kind = "inactivity" /\ tm.at <= now
    /\ timers' = timers \ {tm}
    /\ tasks' = IF ~threads[tm.th].archived
                THEN tasks \cup {Task("close", "begin", Bot, tm.th, "-", TRUE)}
                ELSE tasks
    /\ reply' = IF ~threads[tm.th].archived
                THEN Reply("InactivityClose", threads[tm.th].owner, tm.th, 0)
                ELSE NoReply
    /\ UNCHANGED <<now, TICKET_CREATION_STATUS, BYPASS_HOURS_ACTIVE, cooldowns, roles,
                   denied, threads, prompts, ticks, restarts, manual, cleared, tvars, mvars>>

\* archive_thread_after_delay after its sleep.
archive_thread_after_delay(tm) ==
    /\ tm \in timers /\ tm.kind = "inactivity" /\ tm.at <= now
    /\ timers' = timers \ {tm}
    /\ tasks' = IF ~threads[tm.th].archived
                THEN tasks \cup {Task("close", "begin", Bot, tm.th, "-", FALSE)}
                ELSE tasks
    /\ reply' = IF ~threads[tm.th].archived
                THEN Reply("InactivityClose", threads[tm.th].owner, tm.th, 0)
                ELSE NoReply
    /\ UNCHANGED <<now, TICKET_CREATION_STATUS, BYPASS_HOURS_ACTIVE, cooldowns, roles,
                   denied, threads, prompts, ticks, restarts, manual, cleared, tvars, mvars>>

\* ticket_opener: the author of the oldest message unless that is the bot (or
\* the history is empty), and then the closer.
TicketOpener(t, closer) ==
    IF threads[t].first \in {NoOne, Bot} THEN closer ELSE threads[t].first

\* perform_ticket_closure up to the first await of the grant: the transcript is
\* logged and, with apply_cooldown, the cooldown expiry is recorded.
CloseBegin(k) ==
    /\ k \in tasks /\ k.kind = "close" /\ k.pc = "begin"
    /\ LET t == k.th
           member == TicketOpener(t, k.who)
       IN  IF k.grant /\ member \in Members
           THEN /\ cooldowns' = DictSet(cooldowns, member, now + COOLDOWN_SECONDS)
                /\ threads' = [threads EXCEPT ![t].transcripts = @ + 1,
                                               ![t].grants = @ + 1,
                                               ![t].grantLog =
                                                   @ \cup {[who |-> member, at |-> now]}]
                /\ tasks' = (tasks \ {k}) \cup {[k EXCEPT !.pc = "add_roles", !.arg = member]}
           ELSE /\ cooldowns' = cooldowns
                /\ threads' = [threads EXCEPT ![t].transcripts = @ + 1]
                /\ tasks' = (tasks \ {k}) \cup {[k EXCEPT !.pc = "archive"]}
    /\ reply' = NoReply
    /\ UNCHANGED <<now, TICKET_CREATION_STATUS, BYPASS_HOURS_ACTIVE, roles,
                   denied, prompts, timers, ticks, restarts, manual, cleared, tvars, mvars>>

\* member.add_roles returned.
CloseAddRole(k) ==
    /\ k \in tasks /\ k.kind = "close" /\ k.pc = "add_roles"
    /\ roles' = roles \cup {k.arg}
    /\ tasks' = (tasks \ {k}) \cup {[k EXCEPT !.pc = "set_permissions"]}
    /\ reply' = NoReply
    /\ UNCHANGED <<now, TICKET_CREATION_STATUS, BYPASS_HOURS_ACTIVE, cooldowns,
                   denied, threads, prompts, timers, ticks, restarts, manual, cleared, tvars, mvars>>

\* activation_category.set_permissions(deny) returned.
CloseLock(k) ==
    /\ k \in tasks /\ k.kind = "close" /\ k.pc = "set_permissions"
    /\ denied' = denied \cup {k.arg}
    /\ tasks' = (tasks \ {k}) \cup {[k EXCEPT !.pc = "create_task"]}
    /\ reply' = NoReply
    /\ UNCHANGED <<now, TICKET_CREATION_STATUS, BYPASS_HOURS_ACTIVE, cooldowns,
                   roles, threads, prompts, timers, ticks, restarts, manual, cleared, tvars, mvars>>

\* member.add_roles or set_permissions raised discord.Forbidden: nothing in
\* perform_ticket_closure or close_ticket catches it, so the closure ends there.
GrantCallForbidden(k, pc) ==
    /\ k \in tasks /\ k.kind = "close" /\ k.pc = pc
    /\ tasks' = tasks \ {k}
    /\ reply' = Reply("Error", k.who, k.th, 0)
    /\ UNCHANGED <<now, TICKET_CREATION_STATUS, BYPASS_HOURS_ACTIVE, cooldowns, roles,
                   denied, threads, prompts, timers, ticks, restarts, manual, cleared, tvars, mvars>>

CloseAddRoleForbidden(k) == GrantCallForbidden(k, "add_roles")
CloseLockForbidden(k) == GrantCallForbidden(k, "set_permissions")

\* release_cooldown_lock up to its sleep: it sleeps until the expiry it reads.
ReleaseTimers(m) ==
    IF m \in DOMAIN cooldowns THEN {Timer("release", m, 0, cooldowns[m])} ELSE {}

\* remove_temp_role up to its sleep.
RoleTimers(m) == {Timer("unrole", m, 0, now + TEMP_ROLE_DURATION_SECONDS)}

\* The two tasks are created and start sleeping.
CloseArm(k) ==
    /\ k \in tasks /\ k.kind = "close" /\ k.pc = "create_task"
    /\ timers' = timers \cup ReleaseTimers(k.arg) \cup RoleTimers(k.arg)
    /\ tasks' = (tasks \ {k}) \cup {[k EXCEPT !.pc = "archive"]}
    /\ reply' = NoReply
    /\ UNCHANGED <<now, TICKET_CREATION_STATUS, BYPASS_HOURS_ACTIVE, cooldowns,
                   roles, denied, threads, prompts, ticks, restarts, manual, cleared, tvars, mvars>>

\* channel.edit(archived=True, locked=True) returned.
CloseArchive(k) ==
    /\ k \in tasks /\ k.kind = "close" /\ k.pc = "archive"
    /\ threads' = [threads EXCEPT ![k.th].archived = TRUE]
    /\ tasks' = tasks \ {k}
    /\ reply' = Reply("Closed", k.who, k.th, 0)
    /\ UNCHANGED <<now, TICKET_CREATION_STATUS, BYPASS_HOURS_ACTIVE, cooldowns,
                   roles, denied, prompts, timers, ticks, restarts, manual, cleared, tvars, mvars>>

(***************************************************************************)
(* The two timers of a grant.                                              *)
(***************************************************************************)
\* release_cooldown_lock after its sleep: the entry is deleted if it has
\* expired, and the category permission is then restored.
ReleaseDue(m) == m \in DOMAIN cooldowns /\ cooldowns[m] <= now

release_cooldown_lock(tm) ==
    /\ tm \in timers /\ tm.kind = "release" /\ tm.at <= now
    /\ timers' = timers \ {tm}
    /\ IF ReleaseDue(tm.who)
       THEN /\ cooldowns' = DictDel(cooldowns, tm.who)
            /\ tasks' = tasks \cup {Task("release", "set_permissions", tm.who, 0, tm.who, FALSE)}
       ELSE /\ cooldowns' = cooldowns
            /\ tasks' = tasks
    /\ reply' = NoReply
    /\ UNCHANGED <<now, TICKET_CREATION_STATUS, BYPASS_HOURS_ACTIVE, roles,
                   denied, threads, prompts, ticks, restarts, manual, cleared, tvars, mvars>>

\* activation_category.set_permissions(allow) returned.
ReleaseRestore(k) ==
    /\ k \in tasks /\ k.kind = "release"
    /\ denied' = denied \ {k.arg}
    /\ tasks' = tasks \ {k}
    /\ reply' = Reply("CooldownExpired", k.arg, 0, 0)
    /\ UNCHANGED <<now, TICKET_CREATION_STATUS, BYPASS_HOURS_ACTIVE, cooldowns,
                   roles, threads, prompts, timers, ticks, restarts, manual, cleared, tvars, mvars>>

\* remove_temp_role after its sleep.
remove_temp_role(tm) ==
    /\ tm \in timers /\ tm.kind = "unrole" /\ tm.at <= now
    /\ timers' = timers \ {tm}
    /\ roles' = roles \ {tm.who}
    /\ reply' = NoReply
    /\ UNCHANGED <<now, TICKET_CREATION_STATUS, BYPASS_HOURS_ACTIVE, cooldowns,
                   denied, threads, prompts, tasks, ticks, restarts, manual, cleared, tvars, mvars>>

(***************************************************************************)
(* /remove_cooldown: the operator's manual clear.                          *)
(***************************************************************************)
\* The time a grant's timer started sleeping, and the sleeping timers of a
\* member's grants made before now.
ArmedAt(tm) ==
    IF tm.kind = "unrole" THEN tm.at - TEMP_ROLE_DURATION_SECONDS
    ELSE tm.at - COOLDOWN_SECONDS

EarlierGrantTimers(u) ==
    {tm \in timers : /\ tm.who = u
                     /\ tm.kind \in {"unrole", "release"}
                     /\ ArmedAt(tm) < now}

remove_cooldown(who, u) ==
    /\ Cardinality(tasks) < MaxTasks
    /\ IF HasManageGuild(who)
       THEN /\ cooldowns' = DictDel(cooldowns, u)
            /\ tasks' = tasks \cup {Task("clear", "set_permissions", who, 0, u, FALSE)}
            /\ cleared' = cleared \cup EarlierGrantTimers(u)
            /\ reply' = NoReply
       ELSE /\ cooldowns' = cooldowns
            /\ tasks' = tasks
            /\ cleared' = cleared
            /\ reply' = Reply("NotAuthorized", who, 0, 0)
    /\ UNCHANGED <<now, TICKET_CREATION_STATUS, BYPASS_HOURS_ACTIVE, roles,
                   denied, threads, prompts, timers, ticks, restarts, manual, tvars, mvars>>

\* set_permissions(allow) returned; the role is removed if held.
ClearRestore(k) ==
    /\ k \in tasks /\ k.kind = "clear" /\ k.pc = "set_permissions"
    /\ denied' = denied \ {k.arg}
    /\ tasks' = (tasks \ {k}) \cup {[k EXCEPT !.pc = "remove_roles"]}
    /\ reply' = NoReply
    /\ UNCHANGED <<now, TICKET_CREATION_STATUS, BYPASS_HOURS_ACTIVE, cooldowns,
                   roles, threads, prompts, timers, ticks, restarts, manual, cleared, tvars, mvars>>

ClearRole(k) ==
    /\ k \in tasks /\ k.kind = "clear" /\ k.pc = "remove_roles"
    /\ roles' = roles \ {k.arg}
    /\ tasks' = tasks \ {k}
    /\ reply' = Reply("Cleared", k.who, 0, 0)
    /\ UNCHANGED <<now, TICKET_CREATION_STATUS, BYPASS_HOURS_ACTIVE, cooldowns,
                   denied, threads, prompts, timers, ticks, restarts, manual, cleared, tvars, mvars>>

(***************************************************************************)
(* The owner's status panel.  The status button toggles                     *)
(* TICKET_CREATION_STATUS.  The bypass button is a plain Button with no    *)
(* callback: _handle_bypass_toggle is reached only from                    *)
(* on_button_interaction, which nothing calls.                             *)
(***************************************************************************)
toggle_status_button(who) ==
    /\ IF who = Owner
       THEN /\ TICKET_CREATION_STATUS' = ~TICKET_CREATION_STATUS
            /\ reply' = Reply("Panel", who, 0, 0)
       ELSE /\ TICKET_CREATION_STATUS' = TICKET_CREATION_STATUS
            /\ reply' = Reply("NotAuthorized", who, 0, 0)
    /\ UNCHANGED <<now, BYPASS_HOURS_ACTIVE, cooldowns, roles, denied, threads,
                   prompts, tasks, timers, ticks, restarts, manual, cleared, tvars, mvars>>

bypass_button(who) ==
    /\ ~is_ticket_time_allowed(now)
    /\ reply' = IF who = Owner THEN Reply("InteractionFailed", who, 0, 0)
                ELSE Reply("NotAuthorized", who, 0, 0)
    /\ UNCHANGED <<now, TICKET_CREATION_STATUS, BYPASS_HOURS_ACTIVE, cooldowns, roles,
                   denied, threads, prompts, tasks, timers, ticks, restarts, manual, cleared, tvars, mvars>>

(***************************************************************************)
(* Process restart: module globals are re-initialised, the event loop's    *)
(* tasks and sleeps are gone, and the review views (not persistent) no     *)
(* longer answer.  The platform keeps threads, roles and permissions.      *)
(***************************************************************************)
Restart ==
    /\ restarts < MaxRestarts
    /\ restarts' = restarts + 1
    /\ TICKET_CREATION_STATUS' = TRUE
    /\ BYPASS_HOURS_ACTIVE' = FALSE
    /\ cooldowns' = EmptyDict
    /\ tasks' = {}
    /\ timers' = {}
    /\ prompts' = [p \in PromptIds |-> [prompts[p] EXCEPT !.live = FALSE]]
    /\ reply' = NoReply
    /\ UNCHANGED <<now, roles, denied, threads, ticks, manual, cleared, tvars, mvars>>

(***************************************************************************)
(* create_transcript.  A rendered line is a run of characters of its       *)
(* message (the message's number, 1 the oldest) ending in its newline, 0.  *)
(***************************************************************************)
CHUNK_LIMIT == 4000

RenderedLine(i, n) == [j \in 1..n |-> IF j = n THEN 0 ELSE i]

\* The lengths of the rendered lines, each under CHUNK_LIMIT; and those of
\* them that never fill a chunk to CHUNK_LIMIT exactly.
LineLengths == {2, 1999, 2000, 2500, 3999}
PackingLengths == {2, 2500, 3999}

\* What channel.history(limit=None) yields for n messages: newest first.
History(n, lens) == [k \in 1..n |-> RenderedLine(n + 1 - k, lens[n + 1 - k])]

\* list.reverse() as it would be if it were left out.
Reverse_Kept(s) == s

\* list.reverse()
Reverse(s) == [k \in 1..Len(s) |-> s[Len(s) + 1 - k]]

\* The test that starts a new chunk, as it would be if it started one for
\* every line.
Overflows_Always(cur, line) == Len(cur) + Len(line) > 0

\* len(current) + len(line) > 4000
Overflows(cur, line) == Len(cur) + Len(line) > CHUNK_LIMIT

\* messages = [msg async for msg in channel.history(limit=None)]; messages.reverse()
FetchHistory ==
    /\ step = 0
    /\ messages' = Reverse(history)
    /\ transcript_chunks' = <<>>
    /\ current' = <<>>
    /\ step' = 1
    /\ UNCHANGED <<botvars, mvars, history>>

\* One turn of the loop over messages.
AppendLine ==
    /\ step \in 1..Len(messages)
    /\ LET line == messages[step]
       IN  IF Overflows(current, line)
           THEN /\ transcript_chunks' = Append(transcript_chunks, current)
                /\ current' = line \o <<0>>
           ELSE /\ transcript_chunks' = transcript_chunks
                /\ current' = current \o line \o <<0>>
    /\ step' = step + 1
    /\ UNCHANGED <<botvars, mvars, history, messages>>

\* if current: transcript_chunks.append(current); return
FlushCurrent ==
    /\ step = Len(messages) + 1
    /\ transcript_chunks' = IF current # <<>>
                            THEN Append(transcript_chunks, current)
                            ELSE transcript_chunks
    /\ step' = step + 1
    /\ UNCHANGED <<botvars, mvars, history, messages, current>>

Returned == step = Len(messages) + 2

(***************************************************************************)
(* The clock.                                                              *)
(***************************************************************************)
Deadlines == {tm.at : tm \in timers}

\* Time passes to the next deadline, or by IdleStep when no timer is pending.
Tick ==
    /\ ticks < MaxTicks
    /\ tasks = {}
    /\ \A tm \in timers : tm.at > now
    /\ now' = IF timers = {} THEN now + IdleStep ELSE Min(Deadlines)
    /\ ticks' = ticks + 1
    /\ reply' = NoReply
    /\ UNCHANGED <<TICKET_CREATION_STATUS, BYPASS_HOURS_ACTIVE, cooldowns, roles,
                   denied, threads, prompts, tasks, timers, restarts, manual, cleared, tvars, mvars>>

Init ==
    /\ now \in InitClocks
    /\ TICKET_CREATION_STATUS = TRUE
    /\ BYPASS_HOURS_ACTIVE = FALSE
    /\ cooldowns = EmptyDict
    /\ roles = {}
    /\ denied = {}
    /\ threads = <<>>
    /\ prompts = <<>>
    /\ tasks = {}
    /\ timers = {}
    /\ reply = NoReply
    /\ ticks = 0
    /\ restarts = 0
    /\ manual = 0
    /\ cleared = {}
    /\ history = <<>>
    /\ messages = <<>>
    /\ transcript_chunks = <<>>
    /\ current = <<>>
    /\ step = 0
    /\ apps = <<>>
    /\ content = <<>>
    /\ has_attachment = FALSE
    /\ scan = 1
    /\ matched = NoApp
    /\ outcome = "None"

Next ==
    \/ ScanKey
    \/ CheckMatched
    \/ FetchHistory
    \/ AppendLine
    \/ FlushCurrent
    \/ \E u \in Users, c \in Channels : CreateNewTicket(u, c)
    \/ \E k \in tasks : CreateThreadDone(k)
    \/ \E k \in tasks : CreateThreadForbidden(k)
    \/ \E k \in tasks : WelcomeSent(k)
    \/ \E t \in ThreadIds, a \in Users, text \in Texts, att \in BOOLEAN :
            OnMessage(t, a, text, att)
    \/ \E p \in PromptIds, who \in Users \cup Moderators : PressApprove(p, who)
    \/ \E p \in PromptIds, who \in Users \cup Moderators : PressDeny(p, who)
    \/ \E k \in tasks : ApproveDone(k)
    \/ \E k \in tasks : DenyDone(k)
    \/ \E tm \in timers : ViewTimeout(tm)
    \/ \E who \in Members, app \in {"spotify", "vpn"}, u \in Users : send_app(who, app, u)
    \/ \E who \in Members, app \in {"spotify", "vpn"}, u \in Users : verify_v2_final(who, app, u)
    \/ \E t \in ThreadIds, who \in Members : close_ticket(t, who)
    \/ \E t \in ThreadIds, who \in Members : force_close(t, who)
    \/ \E tm \in timers : archive_thread_after_delay(tm)
    \/ \E k \in tasks : CloseBegin(k)
    \/ \E k \in tasks : CloseAddRole(k)
    \/ \E k \in tasks : CloseLock(k)
    \/ \E k \in tasks : CloseAddRoleForbidden(k)
    \/ \E k \in tasks : CloseLockForbidden(k)
    \/ \E k \in tasks : CloseArm(k)
    \/ \E k \in tasks : CloseArchive(k)
    \/ \E tm \in timers : release_cooldown_lock(tm)
    \/ \E k \in tasks : ReleaseRestore(k)
    \/ \E tm \in timers : remove_temp_role(tm)
    \/ \E who \in Members, u \in Members : remove_cooldown(who, u)
    \/ \E k \in tasks : ClearRestore(k)
    \/ \E k \in tasks : ClearRole(k)
    \/ \E who \in Members : toggle_status_button(who)
    \/ \E who \in Members : bypass_button(who)
    \/ Restart
    \/ Tick

Spec == Init /\ [][Next]_vars

(***************************************************************************)
(* Scenario specifications: each keeps the actions of one part of the      *)
(* workflow, so every behaviour of one of them is a behaviour of Spec.     *)
(***************************************************************************)
\* Ticket creation and closure without a grant.
NextTickets ==
    \/ \E u \in Users, c \in Channels : CreateNewTicket(u, c)
    \/ \E k \in tasks : CreateThreadDone(k)
    \/ \E k \in tasks : CreateThreadForbidden(k)
    \/ \E k \in tasks : WelcomeSent(k)
    \/ \E t \in ThreadIds, who \in Operators : force_close(t, who)
    \/ \E tm \in timers : archive_thread_after_delay(tm)
    \/ \E k \in tasks : CloseBegin(k)
    \/ \E k \in tasks : CloseArchive(k)
    \/ \E who \in Members : toggle_status_button(who)
    \/ \E who \in Members : bypass_button(who)
    \/ Tick

SpecTickets == Init /\ [][NextTickets]_vars

\* Proof submission and operator review in tickets.
NextReview ==
    \/ \E u \in Users : CreateNewTicket(u, "panel")
    \/ \E k \in tasks : CreateThreadDone(k)
    \/ \E k \in tasks : WelcomeSent(k)
    \/ \E t \in ThreadIds, a \in Users, text \in Texts, att \in BOOLEAN :
            OnMessage(t, a, text, att)
    \/ \E p \in PromptIds, who \in Users \cup Moderators : PressApprove(p, who)
    \/ \E p \in PromptIds, who \in Users \cup Moderators : PressDeny(p, who)
    \/ \E k \in tasks : ApproveDone(k)
    \/ \E k \in tasks : DenyDone(k)
    \/ \E tm \in timers : ViewTimeout(tm)
    \/ \E tm \in timers : archive_thread_after_delay(tm)
    \/ \E k \in tasks : CloseBegin(k)
    \/ \E k \in tasks : CloseArchive(k)
    \/ Tick

\* The bot starts inside the opening hours.
InitOpen == Init /\ is_ticket_time_allowed(now)

SpecReview == InitOpen /\ [][NextReview]_vars

\* Delivery by command, closure with grant, the grant's timers, restart.
NextGrant ==
    \/ \E u \in Users : CreateNewTicket(u, "panel")
    \/ \E k \in tasks : CreateThreadDone(k)
    \/ \E k \in tasks : WelcomeSent(k)
    \/ \E who \in Operators, u \in Users : send_app(who, "spotify", u)
    \/ \E t \in ThreadIds, who \in Members : close_ticket(t, who)
    \/ \E tm \in timers : archive_thread_after_delay(tm)
    \/ \E k \in tasks : CloseBegin(k)
    \/ \E k \in tasks : CloseAddRole(k)
    \/ \E k \in tasks : CloseLock(k)
    \/ \E k \in tasks : CloseArm(k)
    \/ \E k \in tasks : CloseArchive(k)
    \/ \E tm \in timers : release_cooldown_lock(tm)
    \/ \E k \in tasks : ReleaseRestore(k)
    \/ \E tm \in timers : remove_temp_role(tm)
    \/ Restart
    \/ Tick

SpecGrant == InitOpen /\ [][NextGrant]_vars

\* Proof submission in every letter case, review and the final delivery by
\* command, with no clock.
NextProof ==
    \/ \E u \in Users : CreateNewTicket(u, "panel")
    \/ \E k \in tasks : CreateThreadDone(k)
    \/ \E k \in tasks : WelcomeSent(k)
    \/ \E t \in ThreadIds, a \in Users, text \in AllTexts, att \in BOOLEAN :
            OnMessage(t, a, text, att)
    \/ \E p \in PromptIds, who \in Moderators : PressApprove(p, who)
    \/ \E p \in PromptIds, who \in Moderators : PressDeny(p, who)
    \/ \E k \in tasks : ApproveDone(k)
    \/ \E k \in tasks : DenyDone(k)
    \/ \E who \in Moderators, u \in Users : verify_v2_final(who, "vpn", u)

SpecProof == InitOpen /\ [][NextProof]_vars

\* A second grant at the expiry of the first: two deliveries by command, the
\* operator closes, and the grants' timers run.
NextRegrant ==
    \/ \E u \in Users : CreateNewTicket(u, "panel")
    \/ \E k \in tasks : CreateThreadDone(k)
    \/ \E k \in tasks : WelcomeSent(k)
    \/ \E who \in Operators, u \in Users :
            ManualDeliverUpTo(MaxRegrantManual, who, "spotify", u, FALSE)
    \/ \E t \in ThreadIds, who \in Operators : close_ticket(t, who)
    \/ \E tm \in timers : archive_thread_after_delay(tm)
    \/ \E k \in tasks : CloseBegin(k)
    \/ \E k \in tasks : CloseAddRole(k)
    \/ \E k \in tasks : CloseLock(k)
    \/ \E k \in tasks : CloseArm(k)
    \/ \E k \in tasks : CloseArchive(k)
    \/ \E tm \in timers : release_cooldown_lock(tm)
    \/ \E k \in tasks : ReleaseRestore(k)
    \/ \E tm \in timers : remove_temp_role(tm)
    \/ Tick

SpecRegrant == InitOpen /\ [][NextRegrant]_vars

\* The operator's clear of a member on cooldown, between two grants of a
\* member who closes their own tickets.
NextClear ==
    \/ \E u \in Users : CreateNewTicket(u, "panel")
    \/ \E k \in tasks : CreateThreadDone(k)
    \/ \E k \in tasks : WelcomeSent(k)
    \/ \E who \in Operators, u \in Users :
            ManualDeliverUpTo(MaxRegrantManual, who, "spotify", u, FALSE)
    \/ \E t \in ThreadIds, who \in Users : close_ticket(t, who)
    \/ \E tm \in timers : archive_thread_after_delay(tm)
    \/ \E k \in tasks : CloseBegin(k)
    \/ \E k \in tasks : CloseAddRole(k)
    \/ \E k \in tasks : CloseLock(k)
    \/ \E k \in tasks : CloseArm(k)
    \/ \E k \in tasks : CloseArchive(k)
    \/ \E tm \in timers : release_cooldown_lock(tm)
    \/ \E k \in tasks : ReleaseRestore(k)
    \/ \E tm \in timers : remove_temp_role(tm)
    \/ \E who \in Operators, u \in DOMAIN cooldowns : remove_cooldown(who, u)
    \/ \E k \in tasks : ClearRestore(k)
    \/ \E k \in tasks : ClearRole(k)
    \/ Tick

SpecClear == InitOpen /\ [][NextClear]_vars

\* The operator's forced closure of tickets in every stage of the review,
\* beside closures with a grant; no clock.
NextForce ==
    \/ \E u \in Users : CreateNewTicket(u, "panel")
    \/ \E k \in tasks : CreateThreadDone(k)
    \/ \E k \in tasks : WelcomeSent(k)
    \/ \E t \in ThreadIds, a \in Users, text \in Texts : OnMessage(t, a, text, TRUE)
    \/ \E p \in PromptIds, who \in Operators : PressApprove(p, who)
    \/ \E k \in tasks : ApproveDone(k)
    \/ \E t \in ThreadIds, who \in Users : close_ticket(t, who)
    \/ \E t \in ThreadIds, who \in Members : force_close(t, who)
    \/ \E k \in tasks : CloseBegin(k)
    \/ \E k \in tasks : CloseAddRole(k)
    \/ \E k \in tasks : CloseLock(k)
    \/ \E k \in tasks : CloseArm(k)
    \/ \E k \in tasks : CloseArchive(k)

SpecForce == InitOpen /\ [][NextForce]_vars

\* create_transcript alone, over every history of up to MaxMessages lines of
\* the given lengths.
InitTranscriptOver(lengths) ==
    /\ now = Min(InitClocks)
    /\ TICKET_CREATION_STATUS = TRUE
    /\ BYPASS_HOURS_ACTIVE = FALSE
    /\ cooldowns = EmptyDict
    /\ roles = {}
    /\ denied = {}
    /\ threads = <<>>
    /\ prompts = <<>>
    /\ tasks = {}
    /\ timers = {}
    /\ reply = NoReply
    /\ ticks = 0
    /\ restarts = 0
    /\ manual = 0
    /\ cleared = {}
    /\ \E n \in 0..MaxMessages : \E lens \in [1..n -> lengths] :
            history = History(n, lens)
    /\ messages = <<>>
    /\ transcript_chunks = <<>>
    /\ current = <<>>
    /\ step = 0
    /\ apps = <<>>
    /\ content = <<>>
    /\ has_attachment = FALSE
    /\ scan = 1
    /\ matched = NoApp
    /\ outcome = "None"

NextTranscript ==
    \/ FetchHistory
    \/ AppendLine
    \/ FlushCurrent

InitTranscript == InitTranscriptOver(LineLengths)

SpecTranscript == InitTranscript /\ [][NextTranscript]_vars

InitPacking == InitTranscriptOver(PackingLengths)

SpecPacking == InitPacking /\ [][NextTranscript]_vars

\* Review across a restart: a proof is queued, time passes, the process
\* restarts, and the operator decides.
NextStale ==
    \/ \E u \in Users : CreateNewTicket(u, "panel")
    \/ \E k \in tasks : CreateThreadDone(k)
    \/ \E k \in tasks : WelcomeSent(k)
    \/ \E t \in ThreadIds, a \in Users, text \in Texts : OnMessage(t, a, text, TRUE)
    \/ \E p \in PromptIds, who \in Operators : PressApprove(p, who)
    \/ \E p \in PromptIds, who \in Operators : PressDeny(p, who)
    \/ \E k \in tasks : ApproveDone(k)
    \/ \E k \in tasks : DenyDone(k)
    \/ \E tm \in timers : ViewTimeout(tm)
    \/ \E tm \in timers : archive_thread_after_delay(tm)
    \/ \E k \in tasks : CloseBegin(k)
    \/ \E k \in tasks : CloseArchive(k)
    \/ Restart
    \/ Tick

SpecStale == InitOpen /\ [][NextStale]_vars

\* A second submission in the same ticket: up to MaxResubmit proofs are
\* queued and decided; no clock.
NextResubmit ==
    \/ \E u \in Users : CreateNewTicket(u, "panel")
    \/ \E k \in tasks : CreateThreadDone(k)
    \/ \E k \in tasks : WelcomeSent(k)
    \/ \E t \in ThreadIds, a \in Users, text \in Texts :
            OnMessageUpTo(MaxResubmit, t, a, text, TRUE)
    \/ \E p \in PromptIds, who \in Operators : PressApprove(p, who)
    \/ \E p \in PromptIds, who \in Operators : PressDeny(p, who)
    \/ \E k \in tasks : ApproveDone(k)
    \/ \E k \in tasks : DenyDone(k)

SpecResubmit == InitOpen /\ [][NextResubmit]_vars

\* A grant whose platform calls may be refused.
NextPartial ==
    \/ \E u \in Users : CreateNewTicket(u, "panel")
    \/ \E k \in tasks : CreateThreadDone(k)
    \/ \E k \in tasks : WelcomeSent(k)
    \/ \E who \in Operators, u \in Users : send_app(who, "spotify", u)
    \/ \E t \in ThreadIds, who \in Members : close_ticket(t, who)
    \/ \E k \in tasks : CloseBegin(k)
    \/ \E k \in tasks : CloseAddRole(k)
    \/ \E k \in tasks : CloseAddRoleForbidden(k)
    \/ \E k \in tasks : CloseLock(k)
    \/ \E k \in tasks : CloseLockForbidden(k)
    \/ \E k \in tasks : CloseArm(k)
    \/ \E k \in tasks : CloseArchive(k)

SpecPartial == InitOpen /\ [][NextPartial]_vars

\* on_message's match alone, over every catalog of up to MaxKeys lowercase
\* keys without repetition (add_app lowercases the key it stores) and texts
\* that name none, one or several of them.
CatalogKeys == {"spotify", "vpn", "hotstar"}
Catalogs ==
    UNION {{c \in [1..n -> CatalogKeys] : \A i, j \in 1..n : c[i] = c[j] => i = j} :
              n \in 0..MaxKeys}
ScanTexts ==
    { <<"v","p","n"," ","s","p","o","t","i","f","y"," ","r","a","s","h"," ","t","e","c","h">>,
      <<"S","P","O","T","I","F","Y"," ","V","P","N"," ","K","E","Y">>,
      <<"h","o","t","s","t","a","r"," ","k","e","y",","," ","v","p","n"," ","k","e","y">>,
      <<"S","p","o","t","i","f","y"," ","H","o","t","s","t","a","r"," ","R","A","S","H"," ","T","E","C","H">>,
      <<"v","p","n">>,
      <<"h","i">> }

InitCatalog ==
    /\ now = Min(InitClocks)
    /\ TICKET_CREATION_STATUS = TRUE
    /\ BYPASS_HOURS_ACTIVE = FALSE
    /\ cooldowns = EmptyDict
    /\ roles = {}
    /\ denied = {}
    /\ threads = <<>>
    /\ prompts = <<>>
    /\ tasks = {}
    /\ timers = {}
    /\ reply = NoReply
    /\ ticks = 0
    /\ restarts = 0
    /\ manual = 0
    /\ cleared = {}
    /\ history = <<>>
    /\ messages = <<>>
    /\ transcript_chunks = <<>>
    /\ current = <<>>
    /\ step = 0
    /\ apps \in Catalogs
    /\ content \in ScanTexts
    /\ has_attachment \in BOOLEAN
    /\ scan = 1
    /\ matched = NoApp
    /\ outcome = "None"

NextCatalog ==
    \/ ScanKey
    \/ CheckMatched

SpecCatalog == InitCatalog /\ [][NextCatalog]_vars

\* Submissions alone: tickets are opened and messages are posted.
NextMatch ==
    \/ \E u \in Users : CreateNewTicket(u, "panel")
    \/ \E k \in tasks : CreateThreadDone(k)
    \/ \E k \in tasks : WelcomeSent(k)
    \/ \E t \in ThreadIds, a \in Users, text \in AllTexts, att \in BOOLEAN :
            OnMessage(t, a, text, att)

SpecMatch == InitOpen /\ [][NextMatch]_vars

(***************************************************************************)
(* Fairness of the event loop: a ready coroutine is resumed, a sleep that  *)
(* is due completes, and time passes.  Users, operators and restarts are   *)
(* under no obligation.                                                    *)
(***************************************************************************)
Resume ==
    \E k \in tasks :
        \/ CreateThreadDone(k) \/ WelcomeSent(k)
        \/ CloseBegin(k) \/ CloseAddRole(k) \/ CloseLock(k) \/ CloseArm(k)
        \/ CloseArchive(k) \/ ReleaseRestore(k)

Fire ==
    \E tm \in timers :
        \/ archive_thread_after_delay(tm)
        \/ release_cooldown_lock(tm)
        \/ remove_temp_role(tm)

SpecGrantFair == SpecGrant /\ WF_vars(Resume) /\ WF_vars(Fire) /\ WF_vars(Tick)

\* The operator's clear beside one grant and its timers, with no restart and
\* no refused platform call.
NextOverride ==
    \/ \E u \in Users : CreateNewTicket(u, "panel")
    \/ \E k \in tasks : CreateThreadDone(k)
    \/ \E k \in tasks : WelcomeSent(k)
    \/ \E who \in Operators, u \in Users : send_app(who, "spotify", u)
    \/ \E t \in ThreadIds, who \in Users : close_ticket(t, who)
    \/ \E tm \in timers : archive_thread_after_delay(tm)
    \/ \E k \in tasks : CloseBegin(k)
    \/ \E k \in tasks : CloseAddRole(k)
    \/ \E k \in tasks : CloseLock(k)
    \/ \E k \in tasks : CloseArm(k)
    \/ \E k \in tasks : CloseArchive(k)
    \/ \E tm \in timers : release_cooldown_lock(tm)
    \/ \E k \in tasks : ReleaseRestore(k)
    \/ \E tm \in timers : remove_temp_role(tm)
    \/ \E who \in Operators, u \in DOMAIN cooldowns : remove_cooldown(who, u)
    \/ \E k \in tasks : ClearRestore(k)
    \/ \E k \in tasks : ClearRole(k)
    \/ Tick

SpecOverride == InitOpen /\ [][NextOverride]_vars

\* The coroutine of /remove_cooldown is resumed like any other.
ResumeClear == \E k \in tasks : ClearRestore(k) \/ ClearRole(k)

SpecOverrideFair ==
    SpecOverride /\ WF_vars(Resume) /\ WF_vars(ResumeClear) /\ WF_vars(Fire) /\ WF_vars(Tick)

(***************************************************************************)
(* Properties.                                                             *)
(***************************************************************************)
CooldownOver(t0) == now >= t0 + COOLDOWN_SECONDS

\* C1: every user has at most one ticket that is not closed, whatever the
\* interleaving of open requests, closures and inactivity timers, and whatever
\* channels the requests come from.
C1_OneOpenTicketPerUser ==
    \A u \in Members : Cardinality(ActiveTickets(u)) <= 1

\* C2: once a reward link has been delivered in a user's ticket, no open
\* request of that user is accepted before COOLDOWN_HOURS have passed since
\* the delivery, however the ticket was closed.
C2_NoCooldownBypass ==
    reply.kind = "Creating" =>
        \A t \in ThreadIds :
            (threads[t].owner = reply.who /\ threads[t].links > 0)
                => CooldownOver(threads[t].linkAt)

\* C3: after a closure with apply_cooldown of a user's ticket, an open request
\* of that user is not accepted before COOLDOWN_HOURS have passed since the
\* closure, and it is refused for cooldown only up to that time.
OwnGrants(u) == {t \in ThreadIds : threads[t].owner = u /\ threads[t].grants > 0}

C3_CooldownAfterGrant ==
    OwnGrants(reply.who) # {} =>
        /\ reply.kind \in {"Creating", "DuplicateTicket"} =>
               \A t \in OwnGrants(reply.who) :
                   \A g \in threads[t].grantLog : CooldownOver(g.at)
        /\ reply.kind = "CooldownActive" =>
               \E t \in OwnGrants(reply.who) :
                   \E g \in threads[t].grantLog : now <= g.at + COOLDOWN_SECONDS

\* C4: a member holds the temporary role no longer than
\* TEMP_ROLE_DURATION_HOURS after a grant to that member, and no longer holds
\* it when the cooldown release of the grant has run.
GrantsTo(m) == {g \in UNION {threads[t].grantLog : t \in ThreadIds} : g.who = m}

C4_RoleRemovedInTime ==
    /\ \A m \in roles :
           \E g \in GrantsTo(m) : now <= g.at + TEMP_ROLE_DURATION_SECONDS
    /\ reply.kind = "CooldownExpired" => reply.who \notin roles

\* C5: a member who holds the temporary role eventually loses it, and a member
\* locked out of the activation category is eventually let in again, restarts
\* included.  A behaviour whose clock has reached MaxTicks is excused while the
\* timer that will do the release is still pending.
RolePending(m) == \E tm \in timers : tm.kind = "unrole" /\ tm.who = m
LockPending(m) == \E tm \in timers : tm.kind = "release" /\ tm.who = m

C5_AlwaysReleased ==
    \A m \in Members :
        /\ [](m \in roles =>
                <>(m \notin roles \/ (ticks = MaxTicks /\ RolePending(m))))
        /\ [](m \in denied =>
                <>(m \notin denied \/ (ticks = MaxTicks /\ LockPending(m))))

\* C6: a review prompt is decided once: the decisions that took effect on it,
\* approvals and denials together, number at most one, and it produced at most
\* one reward delivery.
C6_DecidedOnce ==
    \A p \in PromptIds :
        /\ prompts[p].approvals + prompts[p].denials <= 1
        /\ prompts[p].links <= 1

\* C7: when decisions on one prompt overlap, never both an approval and a
\* denial take effect, and never two deliveries are made.
C7_OneOutcome ==
    \A p \in PromptIds :
        /\ ~(prompts[p].approvals > 0 /\ prompts[p].denials > 0)
        /\ prompts[p].links <= 1

\* C8: closure is terminal: a ticket is closed by one closure only, so it has
\* at most one transcript in the log and its closure changed the cooldown
\* registry at most once.
C8_ClosedIsTerminal ==
    \A t \in ThreadIds :
        /\ threads[t].transcripts <= 1
        /\ threads[t].grants <= 1

\* C9: the grant is applied at most once per ticket, and never for a ticket
\* in which no reward link was delivered.
C9_GrantOncePerTicket ==
    \A t \in ThreadIds :
        /\ threads[t].grants <= 1
        /\ threads[t].links = 0 => threads[t].grants = 0

\* C10: an open request made while TICKET_CREATION_STATUS is false is answered
\* with the system-closed refusal and changes nothing: no thread creation is
\* started, no timer is armed, and threads and cooldowns stay as they are.
C10_DisabledRefuses ==
    [][(~TICKET_CREATION_STATUS /\ \E u \in Users, c \in Channels : CreateNewTicket(u, c))
          => /\ reply'.kind = "SystemClosed"
             /\ UNCHANGED <<threads, timers, cooldowns, tasks, roles, denied>>]_vars

\* C10 happens: inside the opening hours, with the flag off, a request was
\* refused as system-closed.
C10_Witness ==
    /\ ~TICKET_CREATION_STATUS
    /\ is_ticket_time_allowed(now)
    /\ reply.kind = "SystemClosed"

\* C11: when the inactivity timer fires on a ticket that is not archived, a
\* closure by the bot without apply_cooldown starts; that closure leaves the
\* cooldown registry, the temporary role and the category lock as they are,
\* and ends with the ticket archived.
InactivityClosures == {k \in tasks : k.kind = "close" /\ k.who = Bot}

C11_InactivityClosesWithoutGrant ==
    /\ [][\A tm \in timers :
            (archive_thread_after_delay(tm) /\ ~threads[tm.th].archived)
                => \E k \in InactivityClosures' :
                       k \notin tasks /\ k.th = tm.th /\ ~k.grant /\ k.pc = "begin"]_vars
    /\ [][\A k \in InactivityClosures :
            /\ CloseBegin(k) =>
                   /\ UNCHANGED <<cooldowns, roles, denied>>
                   /\ \E k2 \in InactivityClosures' : k2.id = k.id /\ k2.pc = "archive"
            /\ CloseArchive(k) =>
                   /\ UNCHANGED <<cooldowns, roles, denied>>
                   /\ threads'[k.th].archived]_vars

\* C11 happens: the bot's closure archived a ticket in which nothing was
\* delivered, while a grant of another closure is in force.
C11_Witness ==
    /\ reply.kind = "Closed" /\ reply.who = Bot
    /\ threads[reply.th].archived
    /\ threads[reply.th].links = 0
    /\ threads[reply.th].grants = 0
    /\ DOMAIN cooldowns # {}

\* C12: when the approval of a first-stage proof for the two-stage key vpn
\* reaches its ticket, the second-stage instruction is sent and the ticket
\* awaits the second proof; no reward link is delivered and no Close button
\* is offered by that step.
C12_TwoStageApproval ==
    [][\A k \in tasks :
          (/\ ApproveDone(k)
           /\ prompts[k.th].app = "vpn"
           /\ ~threads[prompts[k.th].th].archived)
          => LET t == prompts[k.th].th
             IN  /\ reply'.kind = "SecondStep"
                 /\ threads'[t].stage2
                 /\ threads'[t].links = threads[t].links
                 /\ threads'[t].closeView = threads[t].closeView
                 /\ prompts'[k.th].links = prompts[k.th].links]_vars

\* C12 happens: a ticket was told to send the second proof and has neither a
\* link nor a Close button.
C12_Witness ==
    /\ reply.kind = "SecondStep"
    /\ threads[reply.th].stage2
    /\ threads[reply.th].links = 0
    /\ ~threads[reply.th].closeView

\* C13: in a ticket that awaits the second proof, a submission with an
\* attachment and the phrase "<KEY> KEY" brings the reward link into the
\* ticket by itself.
C13_SecondStepDelivers ==
    (reply.kind = "V2Forwarded" /\ threads[reply.th].stage2)
        => threads[reply.th].links > 0

\* C14: a submission with an attachment has the same outcome in every letter
\* case, and the first-stage phrase inside a sentence is accepted exactly as
\* the bare phrase is.
RecasingsOf == [text \in AllTexts |-> Recasings(text)]
BarePhrase == <<"v","p","n"," ","R","A","S","H"," ","T","E","C","H">>

C14_CaseInsensitive ==
    /\ [][\A t \in ThreadIds, a \in Users, text \in AllTexts :
            OnMessage(t, a, text, TRUE)
                => \A r \in RecasingsOf[text] : OnMessage(t, a, r, TRUE)]_vars
    /\ [][\A t \in ThreadIds, a \in Users :
            OnMessage(t, a, Embedded, TRUE)
                => /\ reply'.kind = "Queued"
                   /\ OnMessage(t, a, BarePhrase, TRUE)]_vars

\* C14 happens: a submission for vpn was queued for review.
C14_Witness ==
    /\ reply.kind = "Queued"
    /\ prompts # <<>>
    /\ prompts[Len(prompts)].app = "vpn"
    /\ prompts[Len(prompts)].th = reply.th

\* C18: a message that names a reward key and has no attachment is answered
\* with the attachment-missing notice, and no review is queued.
C18_AttachmentMissing ==
    [][\A t \in ThreadIds, a \in Users, text \in AllTexts :
          (OnMessage(t, a, text, FALSE) /\ MatchOf[text] # NoApp)
              => /\ reply'.kind = "AttachmentMissing"
                 /\ UNCHANGED prompts]_vars

\* C19: a submission with an attachment and a reward key, without the
\* first-stage phrase and without the key phrase of a two-stage key, is
\* answered with the keyword-missing notice naming two phrases for a two-stage
\* key and one otherwise; no review is queued and nothing is delivered.
HasFirstPhrase == [text \in AllTexts |-> Contains(RASH_TECH, Upper(text))]
HasKeyPhrase ==
    [text \in AllTexts |->
        IF MatchOf[text] \in V2_APPS_LIST
        THEN Contains(v2_key_word(MatchOf[text]), Upper(text))
        ELSE FALSE]

C19_KeywordMissing ==
    [][\A t \in ThreadIds, a \in Users, text \in AllTexts :
          (/\ OnMessage(t, a, text, TRUE)
           /\ MatchOf[text] # NoApp
           /\ ~HasFirstPhrase[text]
           /\ ~HasKeyPhrase[text])
          => /\ reply'.kind = "KeywordMissing"
             /\ reply'.rem = (IF MatchOf[text] \in V2_APPS_LIST THEN 2 ELSE 1)
             /\ UNCHANGED <<prompts, timers, tasks>>
             /\ threads'[t].stage2 = threads[t].stage2
             /\ threads'[t].links = threads[t].links
             /\ threads'[t].closeView = threads[t].closeView]_vars

\* C19 happens: a two-stage submission was refused naming both phrases, with
\* no review queued.
C19_Witness ==
    /\ reply.kind = "KeywordMissing"
    /\ reply.rem = 2
    /\ prompts = <<>>

\* A grant to m that has recorded its expiry and not yet placed its lock.
GrantPlacing(m) ==
    \E k \in tasks : /\ k.kind = "close"
                     /\ k.pc \in {"add_roles", "set_permissions"}
                     /\ k.arg = m

\* C15: a release timer that fires while the recorded expiry is still in the
\* future changes nothing; it removes an entry only when that entry has
\* expired; and the visibility it restores is never that of a member whose
\* recorded expiry is in the future and whose lock that grant has placed.
C15_EarlierTimerSparesLaterGrant ==
    [][/\ \A tm \in timers :
            (release_cooldown_lock(tm) /\ ~ReleaseDue(tm.who))
                => UNCHANGED <<cooldowns, denied, roles, tasks>>
       /\ \A tm \in timers :
            (/\ release_cooldown_lock(tm)
             /\ tm.who \in DOMAIN cooldowns
             /\ tm.who \notin DOMAIN cooldowns') => cooldowns[tm.who] <= now
       /\ \A k \in tasks :
            (/\ ReleaseRestore(k)
             /\ k.arg \in denied
             /\ k.arg \in DOMAIN cooldowns
             /\ ~GrantPlacing(k.arg)) => cooldowns[k.arg] <= now]_vars


ClearInFlight(u) == \E k \in tasks : k.kind = "clear" /\ k.arg = u

\* C16: an operator's clear removes the member's registry entry, lifts the
\* category lock and takes the role away; once it has completed, the member's
\* next attempt to open a ticket is not refused with CooldownActive; and a
\* timer of a grant made before the clear changes no role, lock or entry when
\* it fires after the clear has completed.
C16_ClearReverses ==
    [][/\ \A who \in Operators, u \in Users :
            remove_cooldown(who, u) => u \notin DOMAIN cooldowns'
       /\ \A k \in tasks : ClearRestore(k) => k.arg \notin denied'
       /\ \A k \in tasks : ClearRole(k) => k.arg \notin roles'
       /\ \A k \in tasks :
            (ClearRole(k) /\ ~GrantPlacing(k.arg) /\ k.arg \notin DOMAIN cooldowns)
                => ~CategoryRefuses(k.arg)' /\ ~CooldownRefuses(k.arg)'
       /\ \A tm \in cleared :
            (/\ ~ClearInFlight(tm.who)
             /\ remove_temp_role(tm) \/ release_cooldown_lock(tm))
                => UNCHANGED <<roles, denied, cooldowns, tasks>>]_vars


\* C17: a refusal with CooldownActive carries the remaining duration, which is
\* the member's recorded expiry minus now and is positive.
C17_RefusalCarriesRemaining ==
    reply.kind = "CooldownActive" =>
        /\ reply.who \in DOMAIN cooldowns
        /\ reply.rem = cooldowns[reply.who] - now
        /\ reply.rem > 0


\* The hours of the window [start, end), and the availability condition.
WindowHours == TICKET_START_HOUR_IST .. (TICKET_END_HOUR_IST - 1)

AvailabilityPasses ==
    /\ TICKET_CREATION_STATUS
    /\ HourIST(now) \in WindowHours \/ BYPASS_HOURS_ACTIVE

\* C20: an open request gets past the availability check exactly when
\* TICKET_CREATION_STATUS holds and the hour of now in IST lies in
\* [start, end) or the bypass flag is set; otherwise it is refused as
\* system-closed and no thread creation is started.
C20_AvailabilityCheck ==
    [][\A u \in Users, c \in Channels :
          CreateNewTicket(u, c) =>
              /\ (reply'.kind # "SystemClosed") <=> AvailabilityPasses
              /\ reply'.kind = "SystemClosed" => UNCHANGED <<threads, tasks, timers>>]_vars

\* C20 happens: with the flag on and no bypass, a request made outside the
\* window was refused as system-closed.
C20_Witness ==
    /\ TICKET_CREATION_STATUS /\ ~BYPASS_HOURS_ACTIVE
    /\ HourIST(now) \notin WindowHours
    /\ reply.kind = "SystemClosed"
    /\ reply.who \in Users


\* The closures started by /force_close: close_ticket passes apply_cooldown,
\* the inactivity timer closes as the bot.
ForcedClosures == {k \in tasks : k.kind = "close" /\ k.who \in Operators /\ ~k.grant}

\* The stage of a ticket that is not archived.
UnderReview(t) ==
    \E p \in PromptIds : /\ prompts[p].th = t
                          /\ prompts[p].approvals = 0 /\ prompts[p].denials = 0

\* C21: an operator's /force_close of a ticket that is not archived, whatever
\* its stage, starts a closure without apply_cooldown; that closure leaves the
\* cooldown registry, the temporary role, the category lock and the timers
\* as they are, and ends with the ticket archived.
C21_ForceCloseWithoutGrant ==
    /\ [][\A t \in ThreadIds, who \in Operators :
            (force_close(t, who) /\ ~threads[t].archived)
                => /\ \E k \in ForcedClosures' :
                          k \notin tasks /\ k.th = t /\ k.who = who /\ k.pc = "begin"
                   /\ UNCHANGED <<cooldowns, roles, denied, timers>>]_vars
    /\ [][\A k \in ForcedClosures :
            /\ CloseBegin(k) =>
                   /\ UNCHANGED <<cooldowns, roles, denied, timers>>
                   /\ \E k2 \in ForcedClosures' : k2.id = k.id /\ k2.pc = "archive"
            /\ CloseArchive(k) =>
                   /\ UNCHANGED <<cooldowns, roles, denied, timers>>
                   /\ threads'[k.th].archived]_vars

\* C21 happens: an operator's forced closure has archived a ticket that was
\* awaiting its second proof, and nobody was granted.
C21_Witness ==
    /\ reply.kind = "Closed" /\ reply.who \in Operators
    /\ threads[reply.th].archived
    /\ threads[reply.th].stage2
    /\ threads[reply.th].closures = 1
    /\ threads[reply.th].grants = 0
    /\ DOMAIN cooldowns = {} /\ timers = {tm \in timers : tm.kind \in {"inactivity", "view"}}


RECURSIVE Concat(_)
Concat(seqs) == IF seqs = <<>> THEN <<>> ELSE Head(seqs) \o Concat(Tail(seqs))

\* The lines of the history, oldest first, each followed by its separator.
OldestFirst == [i \in 1..Len(history) |-> history[Len(history) + 1 - i] \o <<0>>]

TotalLength == Len(Concat(OldestFirst))

CeilDiv(a, b) == (a + b - 1) \div b

ChunkIds == 1..Len(transcript_chunks)

\* C22: when create_transcript returns, its chunks joined in order are the
\* lines of the history, oldest first, each once; and every chunk ends at the
\* end of a line, so no line lies across two chunks.
C22_TranscriptReproducesHistory ==
    Returned =>
        /\ Concat(transcript_chunks) = Concat(OldestFirst)
        /\ \A c \in ChunkIds :
              LET chunk == transcript_chunks[c]
              IN  /\ Len(chunk) >= 2
                  /\ chunk[Len(chunk)] = 0
                  /\ chunk[Len(chunk) - 1] = 0

\* C22 happens: a history of three lines was returned in two chunks.
C22_Witness ==
    /\ Returned
    /\ Len(history) = 3
    /\ Len(transcript_chunks) = 2

\* C23, as stated: the number of chunks returned is the total length divided
\* by CHUNK_LIMIT, rounded up.
C23_ChunkCountIsCeiling ==
    Returned => Len(transcript_chunks) = CeilDiv(TotalLength, CHUNK_LIMIT)

\* C23, amended: the number of chunks returned is at least the total length
\* divided by CHUNK_LIMIT + 1, rounded up, and at most the number of lines;
\* and two consecutive chunks together are longer than CHUNK_LIMIT.
C23_ChunkCountBounds ==
    Returned =>
        /\ CeilDiv(TotalLength, CHUNK_LIMIT + 1) <= Len(transcript_chunks)
        /\ Len(transcript_chunks) <= Len(history)
        /\ \A c \in ChunkIds \ {1} :
              Len(transcript_chunks[c - 1]) + Len(transcript_chunks[c]) > CHUNK_LIMIT

\* C23 happens: three lines were returned in three chunks, though their total
\* length divided by CHUNK_LIMIT rounds up to two.
C23_Witness ==
    /\ Returned
    /\ Len(transcript_chunks) = 3
    /\ CeilDiv(TotalLength, CHUNK_LIMIT) = 2

\* C24: no chunk, closed or being filled, is longer than CHUNK_LIMIT.
C24_ChunksWithinLimit ==
    /\ Len(current) <= CHUNK_LIMIT
    /\ \A c \in ChunkIds : Len(transcript_chunks[c]) <= CHUNK_LIMIT


\* C25: when the inactivity timer fires on a ticket whose proof is under
\* review, that awaits its second proof, or that has had its link delivered,
\* no closure by the bot starts.
C25_InactivityOnlyWhileOpen ==
    [][\A tm \in timers :
          (/\ archive_thread_after_delay(tm)
           /\ \/ UnderReview(tm.th)
              \/ threads[tm.th].stage2
              \/ threads[tm.th].links > 0)
              => InactivityClosures' = InactivityClosures]_vars


\* A proof no operator has decided or is deciding.
Undecided(p) ==
    /\ prompts[p].approvals = 0 /\ prompts[p].denials = 0
    /\ \A k \in tasks : k.kind \in {"approve", "deny"} => k.th # p

\* C26: a proof that is queued and undecided, in a ticket that is not
\* archived, can be decided: its buttons reach their handlers, however much
\* time has passed.
C26_ReviewStaysDecidable ==
    \A p \in PromptIds :
        (Undecided(p) /\ ~threads[prompts[p].th].archived) => Pressable(p)


\* The ticket of proof p awaits the review of p: it is not archived and no
\* decision on p has taken effect.
AwaitingProofReview(p) ==
    /\ ~threads[prompts[p].th].archived
    /\ prompts[p].approvals = 0 /\ prompts[p].denials = 0

\* C27: an approval that reaches a ticket that is not awaiting the review of
\* that proof (it is archived, or a decision on the proof has already taken
\* effect) delivers no link and offers no Close button.
C27_ApproveOnlyUnderReview ==
    [][\A k \in tasks :
          (ApproveDone(k) /\ ~AwaitingProofReview(k.th))
              => LET t == prompts[k.th].th
                 IN  /\ threads'[t].links = threads[t].links
                     /\ threads'[t].closeView = threads[t].closeView
                     /\ prompts'[k.th].links = prompts[k.th].links]_vars


\* The proofs of ticket t that an operator can still decide.
Decidable(t) ==
    {p \in PromptIds : /\ prompts[p].th = t
                       /\ Pressable(p)
                       /\ prompts[p].approvals = 0 /\ prompts[p].denials = 0}

\* C28: a ticket never has two review prompts that can be decided at the same
\* time; a proof submitted while another is under review queues nothing.
C28_OneReviewAtATime ==
    \A t \in ThreadIds : Cardinality(Decidable(t)) <= 1


\* C29: a submission is taken as the second-stage proof only in a ticket
\* whose first-stage proof an operator has approved.
C29_SecondStageAfterApproval ==
    reply.kind = "V2Forwarded" => threads[reply.th].stage2


\* The proofs of ticket t that were denied.
DeniedProofs(t) == {p \in PromptIds : prompts[p].th = t /\ prompts[p].denials > 0}

\* C30: a denial that reaches its ticket tells the user, disables the
\* prompt's buttons, and leaves the ticket, its links, the cooldown registry,
\* the role and the category lock as they are; and in a ticket with a denied
\* proof, a first-stage submission that passes the keyword check queues a
\* new prompt that can be decided.
C30_DenyReopens ==
    /\ [][\A k \in tasks :
            (DenyDone(k) /\ ~threads[prompts[k.th].th].archived)
                => /\ UNCHANGED <<threads, cooldowns, roles, denied, timers>>
                   /\ reply'.kind = "Denied" /\ reply'.who = prompts[k.th].user
                   /\ ~Pressable(k.th)']_vars
    /\ [][\A t \in ThreadIds, a \in Users, text \in Texts :
            (/\ OnMessageUpTo(MaxResubmit, t, a, text, TRUE)
             /\ DeniedProofs(t) # {}
             /\ ClassOf[text, TRUE] = "Queued")
                => /\ Len(prompts') = Len(prompts) + 1
                   /\ prompts'[Len(prompts) + 1].th = t
                   /\ prompts'[Len(prompts) + 1].enabled
                   /\ prompts'[Len(prompts) + 1].live
                   /\ reply'.kind = "Queued"]_vars

\* C30 happens: after the denial of its first proof, a ticket with no link
\* and no grant has a second proof queued for review.
C30_Witness ==
    /\ Len(prompts) = 2
    /\ prompts[1].denials = 1 /\ prompts[1].approvals = 0
    /\ prompts[2].th = prompts[1].th
    /\ Decidable(prompts[1].th) = {2}
    /\ reply.kind = "Queued"
    /\ threads[prompts[1].th].links = 0
    /\ DOMAIN cooldowns = {}


\* What a member has of a grant: the registry entry, the role and the lock.
Restrictions(m) ==
    <<IF m \in DOMAIN cooldowns THEN cooldowns[m] ELSE 0, m \in roles, m \in denied>>

GrantSteps(k) == CloseBegin(k) \/ CloseAddRole(k) \/ CloseLock(k)

\* C31: a closure with apply_cooldown grants to the member who opened the
\* ticket, whoever pressed Close: every grant logged for a ticket is its
\* owner's, and no step of the grant changes the registry entry, the role or
\* the lock of another member.
C31_GrantToOwnerOnly ==
    /\ [](\A t \in ThreadIds : \A g \in threads[t].grantLog : g.who = threads[t].owner)
    /\ [][\A k \in tasks, m \in Members :
            (k.kind = "close" /\ k.grant /\ GrantSteps(k) /\ m # threads[k.th].owner)
                => Restrictions(m)' = Restrictions(m)]_vars


\* C32: a member whose registry entry expires after now is refused a new
\* ticket in every channel, and is denied the view of the activation
\* category.
C32_CooldownBars ==
    \A u \in Members :
        CooldownRefuses(u) =>
            /\ \A c \in Channels : TicketCheck(u, c).kind \in {"SystemClosed", "CooldownActive"}
            /\ u \in denied


\* C33: a grant sets the temporary role and the category lock together: when
\* the step of a grant that adds the role has run the member is locked out of
\* the category, and when the step that places the lock has run the member
\* holds the role.
C33_RoleAndLockTogether ==
    [][\A k \in tasks :
          (k.kind = "close" /\ k.grant)
              => /\ CloseAddRole(k) => k.arg \in denied'
                 /\ CloseLock(k) => k.arg \in roles']_vars


\* C34: when the platform refuses to add the role or to change the category
\* permission in a grant, the closure goes on with its later steps: it is
\* still suspended in the same closure of the same ticket, on its way to
\* arming the timers and archiving.
C34_PartialGrantTolerated ==
    [][\A k \in tasks :
          (CloseAddRoleForbidden(k) \/ CloseLockForbidden(k))
              => \E k2 \in tasks' :
                     /\ k2.kind = "close" /\ k2.id = k.id /\ k2.who = k.who
                     /\ k2.th = k.th
                     /\ k2.pc \in {"set_permissions", "create_task"}]_vars


\* C35: a press of approve or deny by a user without manage_guild is answered
\* with the not-authorized notice and decides nothing: the prompt, its
\* buttons, the ticket, the suspended handlers and the grant state stay as
\* they are, and the prompt can still be decided.
C35_UnauthorizedPressRejected ==
    [][\A p \in PromptIds, who \in Users :
          (PressApprove(p, who) \/ PressDeny(p, who))
              => /\ reply'.kind = "NotAuthorized" /\ reply'.who = who
                 /\ UNCHANGED <<prompts, threads, tasks, cooldowns, roles, denied>>
                 /\ prompts'[p].enabled /\ prompts'[p].live]_vars

\* C35 happens: a user's press on an undecided prompt was rejected and the
\* prompt can still be decided.
C35_Witness ==
    /\ reply.kind = "NotAuthorized" /\ reply.who \in Users
    /\ \E p \in PromptIds : /\ prompts[p].th = reply.th
                            /\ Undecided(p)
                            /\ Pressable(p)


\* C36: the owner's press of the bypass button flips BYPASS_HOURS_ACTIVE, and
\* with the bypass on and TICKET_CREATION_STATUS on no open request is refused
\* as system-closed; a press of either button by anyone but the owner leaves
\* both flags as they are.
C36_OwnerTogglesBypass ==
    /\ [][bypass_button(Owner) => BYPASS_HOURS_ACTIVE' = ~BYPASS_HOURS_ACTIVE]_vars
    /\ []((BYPASS_HOURS_ACTIVE /\ TICKET_CREATION_STATUS) => ~StatusRefuses)
    /\ [][\A who \in Members \ {Owner} :
            (bypass_button(who) \/ toggle_status_button(who))
                => UNCHANGED <<TICKET_CREATION_STATUS, BYPASS_HOURS_ACTIVE>>]_vars


\* The outcomes of a submission that is not rejected.
AcceptedKinds == {"Queued", "V2Forwarded"}

\* C37: a message with an attachment in a ticket that is not accepted as a
\* proof is answered to its author with the reason, the missing keyword or
\* the missing reward key; it is never passed over in silence.
C37_RejectionHasReason ==
    [][\A t \in ThreadIds, a \in Users, text \in AllTexts :
          (OnMessage(t, a, text, TRUE) /\ ClassOf[text, TRUE] \notin AcceptedKinds)
              => /\ reply'.kind \in {"KeywordMissing", "RewardKeyMissing"}
                 /\ reply'.who = a]_vars


\* The positions of the catalog whose key, in lowercase, lies in the
\* lowercased text; and the first of those keys.
Hits == {i \in 1..Len(apps) : Contains(Lower(Chars[apps[i]]), Lower(content))}
FirstHit == IF Hits = {} THEN NoApp ELSE apps[Min(Hits)]

\* C38: the key matched is the first key of the catalog, in insertion order,
\* whose lowercase name lies in the lowercased text, or none when there is no
\* such key; and the message is taken as a final proof only when that key is
\* two-stage and its own key phrase is in the text, and as a first-stage
\* proof only when it is not and the first-stage phrase is.
C38_FirstMatchWins ==
    Answered =>
        /\ matched = FirstHit
        /\ outcome = "V2Forwarded" <=>
               /\ has_attachment /\ FirstHit # NoApp
               /\ FirstHit \in V2_APPS_LIST
               /\ Contains(v2_key_word(FirstHit), Upper(content))
        /\ outcome = "Queued" <=>
               /\ has_attachment /\ FirstHit # NoApp
               /\ ~(/\ FirstHit \in V2_APPS_LIST
                    /\ Contains(v2_key_word(FirstHit), Upper(content)))
               /\ Contains(RASH_TECH, Upper(content))

\* C38 happens: a text that names a two-stage key and its phrase after a
\* single-stage key was matched to the single-stage key, first in the
\* catalog, and was not taken as a final proof.
C38_Witness ==
    /\ Answered
    /\ Cardinality(Hits) >= 2
    /\ matched = apps[1] /\ matched \notin V2_APPS_LIST
    /\ \E i \in Hits : /\ apps[i] \in V2_APPS_LIST
                       /\ Contains(v2_key_word(apps[i]), Upper(content))
    /\ has_attachment
    /\ outcome = "KeywordMissing"


\* A grant to m that has recorded its expiry and not yet added the role.
RoleComing(m) ==
    \E k \in tasks : k.kind = "close" /\ k.pc = "add_roles" /\ k.arg = m

\* C39: a role-removal timer takes the role from a member, every grant to
\* whom has added its role, only when TEMP_ROLE_DURATION_HOURS have passed
\* since each of those grants: the timer of an earlier grant never cuts short
\* the role of a later one.
C39_RoleLastsItsDuration ==
    [][\A tm \in timers :
          (remove_temp_role(tm) /\ tm.who \in roles /\ ~RoleComing(tm.who))
              => \A g \in GrantsTo(tm.who) : now >= g.at + TEMP_ROLE_DURATION_SECONDS]_vars


\* The member has nothing left of a grant.
Released(m) == m \notin DOMAIN cooldowns /\ m \notin denied /\ m \notin roles

\* The clock of the behaviour has run out while the timer that will lift what
\* the member still has is asleep.
StillAsleep(m) ==
    /\ ticks = MaxTicks
    /\ \/ m \in roles /\ RolePending(m)
       \/ (m \in denied \/ m \in DOMAIN cooldowns) /\ LockPending(m)

\* C40: with no restart, no refused platform call and every coroutine and
\* timer eventually run, each grant to a member, superseding or followed by
\* an operator's clear, is eventually followed by a state in which the member
\* has no registry entry, sees the category and does not hold the role.
C40_GrantEventuallyReleased ==
    \A m \in Members : [](RoleComing(m) => <>(Released(m) \/ StillAsleep(m)))

====
